---- MODULE Spec2Model ----
(***************************************************************************)
(* Model of the Recon distribution engine: the publish endpoint            *)
(* MasterNewsPostPublishAPIView.post (src/app/views.py), the ledger        *)
(* NewsDistribution (src/app/models.py), the identity table                *)
(* PortalUserMapping (src/user/models.py) and the content generator        *)
(* generate_variation_with_gpt (src/app/utils.py).                         *)
(***************************************************************************)
EXTENDS Integers, Sequences, FiniteSets, TLC

(* ------------------------------ bounds -------------------------------- *)

\* number of publish requests explored
MaxCalls == 2

\* number of MasterCategoryMapping rows the mapping endpoint may have created
MaxMappingRows == 3

\* number of publish requests that reach the ledger write of one (post, portal) at the same time
Publishers == 2

\* number of pieces of a text the rewrite service returns
MaxPieces == 3

\* highest primary key the assignment endpoint may hand out
MaxAssignmentId == 3

(* ------------------------- database fixtures -------------------------- *)

\* a NULL foreign key / absent id
NoId == 0

Users == {"alice", "bob", "carol", "dan"}

\* Portal rows (name is unique)
PortalRows ==
    { [id |-> 1, name |-> "PortalA"],
      [id |-> 2, name |-> "PortalB"] }

\* PortalCategory rows, unique per (portal, external_id)
PortalCategoryRows ==
    { [id |-> 1, portal |-> 1, name |-> "A-Sports", external_id |-> "12"],
      [id |-> 2, portal |-> 2, name |-> "B-Sports", external_id |-> "7"],
      [id |-> 3, portal |-> 1, name |-> "A-Local",  external_id |-> "13"] }

\* MasterCategory ids; category 3 has no mapping
MasterCategoryIds == {1, 2, 3}

\* Group rows with their master_categories
GroupRows ==
    { [id |-> 1, master_categories |-> {1}],
      [id |-> 2, master_categories |-> {1, 2}],
      [id |-> 3, master_categories |-> {3}] }

\* PortalPrompt rows; portal = NoId is the global (portal-null) prompt
PortalPromptRows ==
    { [id |-> 1, portal |-> 2,    prompt_text |-> "style of PortalB", is_active |-> TRUE],
      [id |-> 2, portal |-> NoId, prompt_text |-> "global style",     is_active |-> TRUE] }

DefaultPromptText == "Rewrite the content slightly for clarity and engagement."

\* primary keys a client may name in the URL; 3 names no MasterNewsPost
RequestedPostIds == {1, 2, 3}

PortalMappingStatuses == {"MATCHED", "PENDING", "MISMATCH"}

(* ------------------------------ messages ------------------------------ *)

MsgNeedCategory == "Please provide master_category_id."
MsgNotAssigned  == "You are not assigned to this master category."
MsgNoDefault    == "No default master category is mapped for this portal. Please provide master_category_id."
MsgNoPortals    == "No portals mapped for this master category."
MsgSkipped      == "Skipped manually by user"
MsgNoMapping    == "No valid portal user mapping found."
MsgPublished    == "News published successfully."
MsgPostNotFound == "No MasterNewsPost matches the given query."
MsgUnboundPortal == "local variable 'portal' referenced before assignment"
MsgImageMissing == "[Errno 2] No such file or directory"
MsgGeneration == "Connection error."

(* ------------------------------- state -------------------------------- *)

VARIABLES
    posts,        \* MasterNewsPost table: post id -> content fields
    mappings,     \* MasterCategoryMapping table, a sequence in primary-key order
    assignments,  \* UserCategoryGroupAssignment table
    identities,   \* PortalUserMapping table
    ledger,       \* NewsDistribution table
    nextId,       \* next primary key of NewsDistribution
    calls,        \* number of publish requests served
    last,         \* the most recent request, what it called and what it returned
    prevLedger,   \* NewsDistribution table before the most recent request
    prevMappings, \* MasterCategoryMapping table before the most recent request
    procs,        \* requests running concurrently: the position and locals of each
    alt,          \* outcome of the most recent publish loop run in another target order
    prompts,      \* PortalPrompt table
    nextAssignmentId  \* next primary key of UserCategoryGroupAssignment

vars == <<posts, mappings, assignments, identities, ledger, nextId, calls, last, prevLedger,
          prevMappings, procs, alt, prompts, nextAssignmentId>>

(* ------------------------------ lookups ------------------------------- *)

Portal(id) == CHOOSE p \in PortalRows : p.id = id

PortalCategory(id) == CHOOSE c \in PortalCategoryRows : c.id = id

\* QuerySet.first(): the row with the lowest primary key
First(rows) == CHOOSE r \in rows : \A q \in rows : r.id <= q.id

\* Python truthiness of a string ("" and None are both falsy): a or b
OrElse(a, b) == IF a # "" THEN a ELSE b

(* -------------------------- content generator ------------------------- *)

\* django.utils.text.slugify on the titles used here: lower-case, spaces to hyphens
slugify(s) ==
    CASE s = "Big Match"     -> "big-match"
      [] s = "City News"     -> "city-news"
      [] s = "City Meta"     -> "city-meta"
      [] s = "Rewritten One" -> "rewritten-one"
      [] s = "Late Goal"     -> "late-goal"
      [] OTHER               -> s

\* a mutation of PassthroughVariant: the slug is always derived, a slug the post has is lost
PassthroughVariant_AlwaysDerive(post) ==
    [ title       |-> post.title,
      short       |-> post.short_description,
      content     |-> post.content,
      meta_title  |-> OrElse(post.meta_title, post.title),
      slug        |-> slugify(OrElse(post.meta_title, post.title)) ]

\* the variant of a mapping with use_default_content
PassthroughVariant(post) ==
    [ title       |-> post.title,
      short       |-> post.short_description,
      content     |-> post.content,
      meta_title  |-> OrElse(post.meta_title, post.title),
      slug        |-> OrElse(post.slug, slugify(OrElse(post.meta_title, post.title))) ]

\* dict.get(key, default) on the decoded object
DictGet(data, key, default) == IF key \in DOMAIN data THEN data[key] ELSE default

\* The text the rewrite service returns is a sequence of pieces:
\*   "prose"   words without braces
\*   "array"   a JSON value that is not an object, without braces
\*   "open"    a lone {          "close"   a lone }
\*   "object"  the text of a JSON object, {...}, that decodes to the dict data
Prose == [t |-> "prose", data |-> << >>]

ArrayText == [t |-> "array", data |-> << >>]

OpenBrace == [t |-> "open", data |-> << >>]

CloseBrace == [t |-> "close", data |-> << >>]

ObjectText(data) == [t |-> "object", data |-> data]

\* json.loads(text): a value when the whole text is one JSON value, JSONDecodeError otherwise
json_loads(text) ==
    IF Len(text) = 1 /\ text[1].t = "object"
    THEN [ok |-> TRUE, is_dict |-> TRUE, data |-> text[1].data]
    ELSE IF Len(text) = 1 /\ text[1].t = "array"
    THEN [ok |-> TRUE, is_dict |-> FALSE, data |-> << >>]
    ELSE [ok |-> FALSE, is_dict |-> FALSE, data |-> << >>]

\* re.search(r"\{.*\}", content, re.DOTALL): the greedy match runs from the
\* first opening brace to the last closing brace after it
re_search(text) ==
    LET opens  == {i \in DOMAIN text : text[i].t \in {"open", "object"}}
        first  == CHOOSE i \in opens : \A j \in opens : i <= j
        closes == {i \in DOMAIN text : text[i].t \in {"close", "object"} /\ i >= first}
        last_  == CHOOSE i \in closes : \A j \in closes : j <= i
    IN  IF opens = {} THEN [found |-> FALSE, text |-> << >>]
        ELSE IF closes = {} THEN [found |-> FALSE, text |-> << >>]
        ELSE [found |-> TRUE, text |-> SubSeq(text, first, last_)]

\* a mutation of generate_variation_with_gpt: an exception of the service call leaves the function
generate_variation_with_gpt_Propagates(title, short_desc, desc, prompt_text, meta_title, slug, reply) ==
    [ raised     |-> reply.raised,
      title      |-> title,
      short      |-> short_desc,
      content    |-> desc,
      meta_title |-> OrElse(meta_title, title),
      slug       |-> OrElse(slug, slugify(OrElse(meta_title, title))) ]

\* a mutation of generate_variation_with_gpt: the fallback always derives the slug
generate_variation_with_gpt_DerivedSlug(title, short_desc, desc, prompt_text, meta_title, slug, reply) ==
    [ raised     |-> FALSE,
      title      |-> title,
      short      |-> short_desc,
      content    |-> desc,
      meta_title |-> OrElse(meta_title, title),
      slug       |-> slugify(OrElse(meta_title, title)) ]

\* reply: what client.responses.create did, [raised, output]: it raised, or
\* it returned the text output. The result says whether an exception left
\* the function (it never does) and carries the five fields returned.
generate_variation_with_gpt(title, short_desc, desc, prompt_text, meta_title, slug, reply) ==
    LET fallback == [ raised     |-> FALSE,
                      title      |-> title,
                      short      |-> short_desc,
                      content    |-> desc,
                      meta_title |-> OrElse(meta_title, title),
                      slug       |-> OrElse(slug, slugify(OrElse(meta_title, title))) ]
        fromData(data) ==
                    [ raised     |-> FALSE,
                      title      |-> DictGet(data, "title", title),
                      short      |-> DictGet(data, "short_description", short_desc),
                      content    |-> DictGet(data, "description", desc),
                      meta_title |-> DictGet(data, "meta_title", OrElse(meta_title, title)),
                      slug       |-> DictGet(data, "slug", OrElse(slug, slugify(OrElse(meta_title, title)))) ]
        strict == json_loads(reply.output)
        match  == re_search(reply.output)
        inner  == json_loads(match.text)
    IN  IF reply.raised THEN fallback
        ELSE IF strict.ok
        THEN (IF strict.is_dict THEN fromData(strict.data) ELSE fallback)
        ELSE IF ~match.found THEN fallback
        ELSE IF inner.ok /\ inner.is_dict THEN fromData(inner.data)
        ELSE fallback

\* a mutation of PromptTextFor: the global prompt is looked up first
PromptTextFor_GlobalFirst(portalId) ==
    LET own    == {p \in prompts : p.portal = portalId /\ p.is_active}
        global == {p \in prompts : p.portal = NoId /\ p.is_active}
    IN  IF global # {} THEN First(global).prompt_text
        ELSE IF own # {} THEN First(own).prompt_text
        ELSE DefaultPromptText

\* the prompt handed to the rewrite service for a portal
PromptTextFor(portalId) ==
    LET own    == {p \in prompts : p.portal = portalId /\ p.is_active}
        global == {p \in prompts : p.portal = NoId /\ p.is_active}
    IN  IF own # {} THEN First(own).prompt_text
        ELSE IF global # {} THEN First(global).prompt_text
        ELSE DefaultPromptText

(* ------------------------- environment answers ------------------------ *)

\* what requests.post did: an HTTP response (status code, body) or an exception (message)
HttpOutcomes ==
    { [exc |-> FALSE, code |-> 200, text |-> "ok"],
      [exc |-> FALSE, code |-> 201, text |-> "ok"],
      [exc |-> FALSE, code |-> 204, text |-> ""],
      [exc |-> FALSE, code |-> 500, text |-> ""],
      [exc |-> TRUE,  code |-> 0,   text |-> "Read timed out"] }

RewrittenObject ==
    [k \in {"title", "short_description", "description", "meta_title", "slug"} |->
        CASE k = "title"             -> "Rewritten One"
          [] k = "short_description" -> "rewritten short"
          [] k = "description"       -> "rewritten body"
          [] k = "meta_title"        -> "Rewritten One"
          [] OTHER                   -> "rewritten-one"]

\* what the rewrite service did
RewriteReplies ==
    { [raised |-> TRUE,  output |-> << >>],
      [raised |-> FALSE, output |-> <<Prose>>],
      [raised |-> FALSE, output |-> <<ObjectText(RewrittenObject)>>] }

(* ------------------------------- ledger ------------------------------- *)

\* a mutation of ApplyDefaults: the variant first stored is kept
ApplyDefaults_KeepVariant(row, defaults) ==
    [row EXCEPT !.portal_category  = defaults.portal_category,
                !.master_category  = defaults.master_category,
                !.status           = defaults.status,
                !.response_message = defaults.response_message]

\* overwrite the fields named in defaults
ApplyDefaults(row, defaults) ==
    [row EXCEPT !.portal_category      = defaults.portal_category,
                !.master_category      = defaults.master_category,
                !.status               = defaults.status,
                !.response_message     = defaults.response_message,
                !.ai_title             = defaults.ai_title,
                !.ai_short_description = defaults.ai_short_description,
                !.ai_content           = defaults.ai_content,
                !.ai_meta_title        = defaults.ai_meta_title,
                !.ai_slug              = defaults.ai_slug]

\* a new NewsDistribution row: defaults, retry_count default 0
NewRow(id, post, portal, defaults) ==
    [ id                   |-> id,
      news_post            |-> post,
      portal               |-> portal,
      portal_category      |-> defaults.portal_category,
      master_category      |-> defaults.master_category,
      status               |-> defaults.status,
      response_message     |-> defaults.response_message,
      ai_title             |-> defaults.ai_title,
      ai_short_description |-> defaults.ai_short_description,
      ai_content           |-> defaults.ai_content,
      ai_meta_title        |-> defaults.ai_meta_title,
      ai_slug              |-> defaults.ai_slug,
      retry_count          |-> 0 ]

\* a mutation of update_or_create: always inserts
update_or_create_insert(rows, id, post, portal, defaults) ==
    [ ledger |-> rows \cup {NewRow(id, post, portal, defaults)},
      nextId |-> id + 1,
      obj    |-> NewRow(id, post, portal, defaults) ]

\* a mutation of update_or_create: the row is looked up by portal alone
update_or_create_AnyPost(rows, id, post, portal, defaults) ==
    LET found == {r \in rows : r.portal = portal}
    IN  IF found # {}
        THEN [ ledger |-> (rows \ found) \cup {ApplyDefaults(r, defaults) : r \in found},
               nextId |-> id,
               obj    |-> ApplyDefaults(First(found), defaults) ]
        ELSE [ ledger |-> rows \cup {NewRow(id, post, portal, defaults)},
               nextId |-> id + 1,
               obj    |-> NewRow(id, post, portal, defaults) ]

\* NewsDistribution.objects.update_or_create(news_post, portal, defaults):
\* the table after the call, the next free primary key, and the row returned
update_or_create(rows, id, post, portal, defaults) ==
    LET found == {r \in rows : r.news_post = post /\ r.portal = portal}
    IN  IF found # {}
        THEN [ ledger |-> (rows \ found) \cup {ApplyDefaults(r, defaults) : r \in found},
               nextId |-> id,
               obj    |-> ApplyDefaults(First(found), defaults) ]
        ELSE [ ledger |-> rows \cup {NewRow(id, post, portal, defaults)},
               nextId |-> id + 1,
               obj    |-> NewRow(id, post, portal, defaults) ]

(* --------------------------- publish request -------------------------- *)

\* request.data["excluded_portals"]: anything that is not a list counts as []
NormalizeExcluded(raw) == IF raw.is_list THEN raw ELSE [is_list |-> TRUE, ids |-> {}, names |-> {}]

\* a mutation of IsExcluded: only ids are compared
IsExcluded_IdOnly(portal, excluded) == portal.id \in excluded.ids

\* portal.id in excluded_portals or portal.name in excluded_portals
IsExcluded(portal, excluded) == portal.id \in excluded.ids \/ portal.name \in excluded.names

\* a mutation of MatchedRows: the status filter is missing
MatchedRows_AnyStatus(user, portalId) ==
    {m \in identities : m.user = user /\ m.portal = portalId}

\* a mutation of MatchedRows: the user filter is missing
MatchedRows_AnyUser(user, portalId) ==
    {m \in identities : m.portal = portalId /\ m.status = "MATCHED"}

\* PortalUserMapping.objects.filter(user, portal, status="MATCHED")
MatchedRows(user, portalId) ==
    {m \in identities : m.user = user /\ m.portal = portalId /\ m.status = "MATCHED"}

\* a mutation of Succeeded: any HTTP response counts as delivered
Succeeded_AnyResponse(out) == ~out.exc

\* a mutation of Succeeded: any 2xx status counts as delivered
Succeeded_Any2xx(out) == IF out.exc THEN FALSE ELSE out.code \in 200..299

\* success = response.status_code in [200, 201]; an exception gives False
Succeeded(out) == IF out.exc THEN FALSE ELSE out.code \in {200, 201}

\* response_msg = response.text, or str(e) when requests.post raised
ResponseMsg(out) == out.text

\* a mutation of NoPortalsMapped: the check is missing
NoPortalsMapped_Never(ms) == FALSE

\* not mappings.exists()
NoPortalsMapped(ms) == Len(ms) = 0

\* a mutation of DirectAssignments: an assignment to a group holding the category counts
DirectAssignments_WithGroups(user, master_category_id) ==
    {a \in assignments :
        /\ a.user = user
        /\ \/ a.master_category = master_category_id
           \/ \E g \in GroupRows : g.id = a.group /\ master_category_id \in g.master_categories}

\* UserCategoryGroupAssignment.objects.filter(user, master_category_id).first()
DirectAssignments(user, master_category_id) ==
    {a \in assignments : a.user = user /\ a.master_category = master_category_id}

\* a mutation of PostCat: the category name is sent
PostCat_Name(portal_category) == portal_category.name

\* "post_cat": portal_category.external_id
PostCat(portal_category) == portal_category.external_id

\* a mutation of PublishedStatus: a failed portal makes the whole answer an error
PublishedStatus_FailOnError(results) ==
    IF \E i \in DOMAIN results : ~results[i].success THEN 502 ELSE 200

\* return Response(success_response(results, ...)): the default status, whatever the results
PublishedStatus(results) == 200

ResultEntry(portal, portal_category, success, response) ==
    [ portal |-> portal.name, category |-> portal_category.name,
      success |-> success, response |-> response ]

\* positions of the mapping list at which the rewrite service is called
RewriteIdx(ms, excluded) ==
    {i \in 1..Len(ms) :
        /\ ~IsExcluded(Portal(PortalCategory(ms[i].portal_category).portal), excluded)
        /\ ~ms[i].use_default_content}

\* positions of the mapping list at which requests.post is called
DispatchIdx(ms, user, excluded) ==
    {i \in 1..Len(ms) :
        /\ ~IsExcluded(Portal(PortalCategory(ms[i].portal_category).portal), excluded)
        /\ MatchedRows(user, PortalCategory(ms[i].portal_category).portal) # {}}

\* the body of "for mapping in mappings", from position i on
RECURSIVE PublishLoop(_, _, _, _, _, _, _, _, _)
PublishLoop(ms, i, user, pk, master_category_id, excluded, outs, replies, acc) ==
    IF i > Len(ms) THEN acc
    ELSE
    LET mapping         == ms[i]
        portal_category == PortalCategory(mapping.portal_category)
        portal          == Portal(portal_category.portal)
        news_post       == posts[pk]
    IN  IF IsExcluded(portal, excluded)
        THEN PublishLoop(ms, i + 1, user, pk, master_category_id, excluded, outs, replies,
                 [acc EXCEPT !.results = Append(@, ResultEntry(portal, portal_category, FALSE, MsgSkipped))])
        ELSE
        LET prompt_text == PromptTextFor(portal.id)
            rewritten ==
                IF mapping.use_default_content
                THEN PassthroughVariant(news_post)
                ELSE generate_variation_with_gpt(news_post.title, news_post.short_description,
                         news_post.content, prompt_text, news_post.meta_title, news_post.slug,
                         replies[i])
            acc1 == IF mapping.use_default_content THEN acc
                    ELSE [acc EXCEPT !.rewrites = Append(@, [index |-> i, portal |-> portal.id, prompt_text |-> prompt_text])]
            portal_users == MatchedRows(user, portal.id)
        IN  \* an exception that leaves the generator leaves the loop
            IF ~mapping.use_default_content /\ rewritten.raised
            THEN [acc1 EXCEPT !.raised = TRUE]
            ELSE
            IF portal_users = {}
            THEN PublishLoop(ms, i + 1, user, pk, master_category_id, excluded, outs, replies,
                     [acc1 EXCEPT !.results = Append(@, ResultEntry(portal, portal_category, FALSE, MsgNoMapping))])
            ELSE
            LET portal_user == First(portal_users)
                payload == [ post_cat       |-> PostCat(portal_category),
                             post_title     |-> rewritten.title,
                             post_short_des |-> rewritten.short,
                             post_des       |-> rewritten.content,
                             meta_title     |-> rewritten.meta_title,
                             slug           |-> rewritten.slug,
                             author         |-> portal_user.portal_user_id ]
                out          == outs[i]
                success      == Succeeded(out)
                response_msg == ResponseMsg(out)
                defaults == [ portal_category      |-> portal_category.id,
                              master_category      |-> master_category_id,
                              status               |-> IF success THEN "SUCCESS" ELSE "FAILED",
                              response_message     |-> response_msg,
                              ai_title             |-> rewritten.title,
                              ai_short_description |-> rewritten.short,
                              ai_content           |-> rewritten.content,
                              ai_meta_title        |-> rewritten.meta_title,
                              ai_slug              |-> rewritten.slug ]
                saved == update_or_create(acc1.ledger, acc1.nextId, pk, portal.id, defaults)
            IN  PublishLoop(ms, i + 1, user, pk, master_category_id, excluded, outs, replies,
                    [ ledger   |-> saved.ledger,
                      nextId   |-> saved.nextId,
                      results  |-> Append(acc1.results, ResultEntry(portal, portal_category, success, response_msg)),
                      http     |-> Append(acc1.http, [index |-> i, portal |-> portal.id, payload |-> payload,
                                                      outcome |-> out, obj |-> saved.obj]),
                      rewrites |-> acc1.rewrites,
                      raised   |-> FALSE ])

\* the request record kept in "last"
Request(op, user, pk, master_category_id, excluded, targets) ==
    [ op |-> op, user |-> user, pk |-> pk, master_category_id |-> master_category_id,
      excluded |-> excluded, targets |-> targets ]

\* no publish request is being answered
NoRequest ==
    [ request |-> Request("none", "alice", NoId, NoId, [is_list |-> TRUE, ids |-> {}, names |-> {}], << >>),
      code |-> 0, ok |-> TRUE, message |-> "",
      results |-> << >>, http |-> << >>, rewrites |-> << >> ]

\* no other target order has been run
NoAlt == [ran |-> FALSE, ledger |-> {}, results |-> << >>]

\* a request rejected before the loop: nothing was called, nothing was written
Rejected(req, code, message) ==
    /\ last' = [ request |-> req, code |-> code, ok |-> FALSE, message |-> message,
                 results |-> << >>, http |-> << >>, rewrites |-> << >> ]
    /\ prevLedger' = ledger
    /\ UNCHANGED <<ledger, nextId>>

\* POST /api/master-news/{pk}/publish/, the rewrite service answering from Replies
PublishWith(user, pk, master_category_id, raw_excluded, Replies) ==
    LET excluded == NormalizeExcluded(raw_excluded)
        req(targets) == Request("publish", user, pk, master_category_id, excluded, targets)
        ms == SelectSeq(mappings, LAMBDA m : m.master_category = master_category_id)
    IN
    /\ last.request.op = "none"
    /\ calls < MaxCalls
    /\ calls' = calls + 1
    /\ UNCHANGED <<prompts, nextAssignmentId, posts, mappings, assignments, identities, prevMappings, procs, alt>>
    /\ IF master_category_id = NoId
       THEN Rejected(req(<< >>), 400, MsgNeedCategory)
       ELSE IF pk \notin DOMAIN posts
       THEN Rejected(req(<< >>), 500, MsgPostNotFound)
       ELSE IF DirectAssignments(user, master_category_id) = {}
       THEN Rejected(req(<< >>), 403, MsgNotAssigned)
       \* the default-mapping fallback: its test repeats the first one, and its
       \* lookup reads the local name portal before the loop has bound it
       ELSE IF master_category_id = NoId
       THEN Rejected(req(<< >>), 500, MsgUnboundPortal)
       ELSE IF NoPortalsMapped(ms)
       THEN Rejected(req(<< >>), 400, MsgNoPortals)
       ELSE \E outs \in [DispatchIdx(ms, user, excluded) -> HttpOutcomes] :
            \E replies \in [RewriteIdx(ms, excluded) -> Replies] :
               LET done == PublishLoop(ms, 1, user, pk, master_category_id, excluded, outs, replies,
                               [ ledger |-> ledger, nextId |-> nextId,
                                 results |-> << >>, http |-> << >>, rewrites |-> << >>, raised |-> FALSE ])
               IN  /\ ledger' = done.ledger
                   /\ nextId' = done.nextId
                   /\ prevLedger' = ledger
                   /\ last' = IF done.raised
                               THEN [ request |-> req(ms), code |-> 500, ok |-> FALSE,
                                      message |-> MsgGeneration, results |-> << >>,
                                      http |-> done.http, rewrites |-> done.rewrites ]
                               ELSE [ request |-> req(ms), code |-> PublishedStatus(done.results), ok |-> TRUE,
                                      message |-> MsgPublished, results |-> done.results,
                                      http |-> done.http, rewrites |-> done.rewrites ]

\* POST /api/master-news/{pk}/publish/
Publish(user, pk, master_category_id, raw_excluded) ==
    PublishWith(user, pk, master_category_id, raw_excluded, RewriteReplies)

\* return Response(...): the answer leaves the server and the request is over
Respond ==
    /\ last.request.op # "none"
    /\ last' = NoRequest
    /\ prevLedger' = ledger
    /\ prevMappings' = mappings
    /\ alt' = NoAlt
    /\ UNCHANGED <<prompts, nextAssignmentId, posts, mappings, assignments, identities, ledger, nextId, calls, procs>>

(* ---------------------------- specification --------------------------- *)

\* excluded_portals values a client sends
ExcludedChoices ==
    { [is_list |-> TRUE,  ids |-> {},  names |-> {}],
      [is_list |-> TRUE,  ids |-> {1}, names |-> {}],
      [is_list |-> TRUE,  ids |-> {},  names |-> {"PortalB"}],
      [is_list |-> FALSE, ids |-> {1}, names |-> {"PortalB"}] }

InitPosts ==
    (1 :> [ title |-> "Big Match", short_description |-> "match short",
            content |-> "match body", meta_title |-> "", slug |-> "" ])
    @@
    (2 :> [ title |-> "City News", short_description |-> "city short",
            content |-> "city body", meta_title |-> "City Meta", slug |-> "city-own-slug" ])

InitMappings ==
    << [id |-> 1, master_category |-> 1, portal_category |-> 1, use_default_content |-> FALSE, is_default |-> TRUE],
       [id |-> 2, master_category |-> 1, portal_category |-> 2, use_default_content |-> TRUE,  is_default |-> FALSE],
       [id |-> 3, master_category |-> 2, portal_category |-> 3, use_default_content |-> TRUE,  is_default |-> FALSE],
       [id |-> 4, master_category |-> 2, portal_category |-> 1, use_default_content |-> TRUE,  is_default |-> FALSE] >>

InitAssignments ==
    { [id |-> 1, user |-> "alice", master_category |-> 1,    group |-> NoId],
      [id |-> 2, user |-> "alice", master_category |-> 2,    group |-> NoId],
      [id |-> 3, user |-> "alice", master_category |-> 3,    group |-> NoId],
      [id |-> 4, user |-> "bob",   master_category |-> 1,    group |-> NoId],
      [id |-> 5, user |-> "carol", master_category |-> NoId, group |-> 1],
      [id |-> 6, user |-> "dan",   master_category |-> 1,    group |-> NoId] }

InitIdentities ==
    { [id |-> 1, user |-> "alice", portal |-> 1, portal_user_id |-> "a-101", status |-> "MATCHED"],
      [id |-> 2, user |-> "alice", portal |-> 2, portal_user_id |-> "a-202", status |-> "MATCHED"],
      [id |-> 3, user |-> "bob",   portal |-> 1, portal_user_id |-> "b-111", status |-> "PENDING"],
      [id |-> 4, user |-> "bob",   portal |-> 2, portal_user_id |-> "b-222", status |-> "MATCHED"],
      [id |-> 5, user |-> "dan",   portal |-> 1, portal_user_id |-> "d-111", status |-> "MISMATCH"] }

Init ==
    /\ posts = InitPosts
    /\ mappings = InitMappings
    /\ assignments = InitAssignments
    /\ identities = InitIdentities
    /\ ledger = {}
    /\ nextId = 1
    /\ calls = 0
    /\ last = NoRequest
    /\ prevLedger = {}
    /\ prevMappings = InitMappings
    /\ procs = << >>
    /\ alt = NoAlt
    /\ prompts = PortalPromptRows
    /\ nextAssignmentId = 7

PublishRequest ==
    \E user \in Users, pk \in RequestedPostIds,
       master_category_id \in MasterCategoryIds \cup {NoId},
       raw_excluded \in ExcludedChoices :
        Publish(user, pk, master_category_id, raw_excluded)

Next ==
    \/ PublishRequest
    \/ Respond

Spec == Init /\ [][Next]_vars

(* ------------------------- category mappings -------------------------- *)

\* a mutation of ClearSiblings: no sibling is touched
ClearSiblings_None(rows, mapping) == rows

\* MasterCategoryMapping.objects.filter(portal_category__portal=mapping.portal_category.portal)
\*     .exclude(id=mapping.id).update(is_default=False)
ClearSiblings(rows, mapping) ==
    [i \in DOMAIN rows |->
        IF /\ PortalCategory(rows[i].portal_category).portal = PortalCategory(mapping.portal_category).portal
           /\ rows[i].id # mapping.id
        THEN [rows[i] EXCEPT !.is_default = FALSE]
        ELSE rows[i]]

\* the position of the mapping of (master category, portal category), 0 when there is none
MappingIndex(rows, mc, pc) ==
    LET found == {i \in DOMAIN rows : rows[i].master_category = mc /\ rows[i].portal_category = pc}
    IN  IF found = {} THEN 0 ELSE CHOOSE i \in found : \A j \in found : i <= j

\* one pass of the loop of MasterCategoryMappingView.post: get_or_create, the
\* update of an existing mapping, the clearing of the siblings; a portal
\* category that does not exist raises and the item is skipped
MappingPostItem(rows, mc, pc, use_default_content, is_default) ==
    IF pc \notin {c.id : c \in PortalCategoryRows}
    THEN rows
    ELSE LET i == MappingIndex(rows, mc, pc)
             stored == IF i = 0
                       THEN Append(rows, [ id |-> Len(rows) + 1, master_category |-> mc,
                                           portal_category |-> pc,
                                           use_default_content |-> use_default_content,
                                           is_default |-> is_default ])
                       ELSE [rows EXCEPT ![i].use_default_content = use_default_content,
                                         ![i].is_default = is_default]
             mapping == stored[IF i = 0 THEN Len(rows) + 1 ELSE i]
         IN  IF is_default THEN ClearSiblings(stored, mapping) ELSE stored

RECURSIVE MappingPostLoop(_, _, _, _, _, _)
\* for portal_cat_id in portal_category_ids
MappingPostLoop(rows, pcs, i, mc, use_default_content, is_default) ==
    IF i > Len(pcs) THEN rows
    ELSE MappingPostLoop(MappingPostItem(rows, mc, pcs[i], use_default_content, is_default),
                         pcs, i + 1, mc, use_default_content, is_default)

\* the answer of a mapping request
MappingAnswer(op, pk, mc, code, ok) ==
    [ request |-> Request(op, "alice", pk, mc, [is_list |-> TRUE, ids |-> {}, names |-> {}], << >>),
      code |-> code, ok |-> ok, message |-> "",
      results |-> << >>, http |-> << >>, rewrites |-> << >> ]

\* POST /api/master-category-mappings/
MappingPost(mc, pcs, use_default_content, is_default) ==
    /\ last.request.op = "none"
    /\ Len(mappings) + Len(pcs) <= MaxMappingRows
    /\ prevMappings' = mappings
    /\ UNCHANGED <<prompts, nextAssignmentId, posts, assignments, identities, ledger, nextId, calls, prevLedger, procs, alt>>
    /\ IF mc = NoId \/ pcs = << >>
       THEN /\ last' = MappingAnswer("mapping_post", NoId, mc, 400, FALSE)
            /\ UNCHANGED mappings
       ELSE /\ mappings' = MappingPostLoop(mappings, pcs, 1, mc, use_default_content, is_default)
            /\ last' = MappingAnswer("mapping_post", NoId, mc, 201, TRUE)

\* a field of a PATCH body: absent (None) or a value
OptionalFlags ==
    { [given |-> FALSE, value |-> FALSE],
      [given |-> TRUE,  value |-> FALSE],
      [given |-> TRUE,  value |-> TRUE] }

\* the mapping object of MasterCategoryMappingView.patch after its assignments
PatchedMapping(mapping, use_default_content, is_default) ==
    [mapping EXCEPT
        !.use_default_content = IF use_default_content.given THEN use_default_content.value ELSE @,
        !.is_default          = IF is_default.given THEN is_default.value ELSE @]

\* the table after the sibling update of MasterCategoryMappingView.patch
PatchClear(rows, mapping, is_default) ==
    IF is_default.given /\ mapping.is_default THEN ClearSiblings(rows, mapping) ELSE rows

\* mapping.save(): every column of the row is written from the object
SaveMapping(rows, mapping) == [rows EXCEPT ![mapping.id] = mapping]

\* PATCH /api/master-category-mappings/{pk}/
MappingPatch(pk, use_default_content, is_default) ==
    /\ last.request.op = "none"
    /\ prevMappings' = mappings
    /\ UNCHANGED <<prompts, nextAssignmentId, posts, assignments, identities, ledger, nextId, calls, prevLedger, procs, alt>>
    /\ IF pk \notin DOMAIN mappings
       THEN /\ last' = MappingAnswer("mapping_patch", pk, NoId, 404, FALSE)
            /\ UNCHANGED mappings
       ELSE LET mapping == PatchedMapping(mappings[pk], use_default_content, is_default)
            IN  /\ mappings' = SaveMapping(PatchClear(mappings, mapping, is_default), mapping)
                /\ last' = MappingAnswer("mapping_patch", pk, NoId, 200, TRUE)

\* portal_categories lists a client sends; 9 names no PortalCategory
PortalCategoryChoices ==
    {<< >>} \cup {<<a>> : a \in {1, 2, 3, 9}} \cup {<<a, b>> : a \in {1, 2, 3, 9}, b \in {1, 2, 3, 9}}

MappingPostRequest ==
    \E mc \in {NoId, 1, 2} : \E pcs \in PortalCategoryChoices :
        \E use_default_content \in BOOLEAN : \E is_default \in BOOLEAN :
            MappingPost(mc, pcs, use_default_content, is_default)

MappingPatchRequest ==
    \E pk \in 1..(MaxMappingRows + 1) :
        \E use_default_content \in OptionalFlags : \E is_default \in OptionalFlags :
            MappingPatch(pk, use_default_content, is_default)

\* an empty MasterCategoryMapping table
InitMapping ==
    /\ posts = InitPosts
    /\ mappings = << >>
    /\ assignments = InitAssignments
    /\ identities = InitIdentities
    /\ ledger = {}
    /\ nextId = 1
    /\ calls = 0
    /\ last = NoRequest
    /\ prevLedger = {}
    /\ prevMappings = << >>
    /\ procs = << >>
    /\ alt = NoAlt
    /\ prompts = PortalPromptRows
    /\ nextAssignmentId = 7

NextMapping == MappingPostRequest \/ MappingPatchRequest \/ Respond

SpecMapping == InitMapping /\ [][NextMapping]_vars

(* ---------------------- two PATCH requests at once -------------------- *)

\* a mapping object not loaded yet
NoMapping ==
    [ id |-> NoId, master_category |-> NoId, portal_category |-> NoId,
      use_default_content |-> FALSE, is_default |-> FALSE ]

\* the PATCH requests two workers serve at the same time
PatchRequests ==
    [ pk : DOMAIN InitMappings, use_default_content : {[given |-> FALSE, value |-> FALSE]},
      is_default : OptionalFlags, pc : {"get"}, obj : {NoMapping} ]

\* mapping = MasterCategoryMapping.objects.get(pk=pk) and the assignments to the object
PatchLoad(p) ==
    /\ procs[p].pc = "get"
    /\ procs' = [procs EXCEPT ![p].pc = "clear",
                              ![p].obj = PatchedMapping(mappings[procs[p].pk],
                                                        procs[p].use_default_content,
                                                        procs[p].is_default)]
    /\ UNCHANGED <<prompts, nextAssignmentId, posts, mappings, assignments, identities, ledger, nextId, calls, last,
                   prevLedger, prevMappings, alt>>

\* the UPDATE of the siblings, a statement of its own (autocommit)
PatchUpdateSiblings(p) ==
    /\ procs[p].pc = "clear"
    /\ mappings' = PatchClear(mappings, procs[p].obj, procs[p].is_default)
    /\ procs' = [procs EXCEPT ![p].pc = "save"]
    /\ UNCHANGED <<prompts, nextAssignmentId, posts, assignments, identities, ledger, nextId, calls, last,
                   prevLedger, prevMappings, alt>>

\* mapping.save(), a statement of its own (autocommit)
PatchSaveRow(p) ==
    /\ procs[p].pc = "save"
    /\ mappings' = SaveMapping(mappings, procs[p].obj)
    /\ procs' = [procs EXCEPT ![p].pc = "done"]
    /\ UNCHANGED <<prompts, nextAssignmentId, posts, assignments, identities, ledger, nextId, calls, last,
                   prevLedger, prevMappings, alt>>

InitPatchRace ==
    /\ posts = InitPosts
    /\ mappings = InitMappings
    /\ assignments = InitAssignments
    /\ identities = InitIdentities
    /\ ledger = {}
    /\ nextId = 1
    /\ calls = 0
    /\ last = NoRequest
    /\ prevLedger = {}
    /\ prevMappings = InitMappings
    /\ procs \in {<<a, b>> : a \in PatchRequests, b \in PatchRequests}
    /\ procs[1].pk # procs[2].pk
    /\ alt = NoAlt
    /\ prompts = PortalPromptRows
    /\ nextAssignmentId = 7

PatchLoadStep == \E p \in DOMAIN procs : PatchLoad(p)

PatchUpdateSiblingsStep == \E p \in DOMAIN procs : PatchUpdateSiblings(p)

PatchSaveRowStep == \E p \in DOMAIN procs : PatchSaveRow(p)

NextPatchRace == PatchLoadStep \/ PatchUpdateSiblingsStep \/ PatchSaveRowStep

SpecPatchRace == InitPatchRace /\ [][NextPatchRace]_vars

(* ------------------ concurrent writes of one ledger row --------------- *)

\* the defaults a publish request of post 1 to PortalA passes to update_or_create
UpsertDefaults(out) ==
    [ portal_category      |-> 1,
      master_category      |-> 1,
      status               |-> IF Succeeded(out) THEN "SUCCESS" ELSE "FAILED",
      response_message     |-> ResponseMsg(out),
      ai_title             |-> PassthroughVariant(posts[1]).title,
      ai_short_description |-> PassthroughVariant(posts[1]).short,
      ai_content           |-> PassthroughVariant(posts[1]).content,
      ai_meta_title        |-> PassthroughVariant(posts[1]).meta_title,
      ai_slug              |-> PassthroughVariant(posts[1]).slug ]

\* the rows update_or_create finds for news_post 1 and portal 1
UpsertFound(rows) == {r \in rows : r.news_post = 1 /\ r.portal = 1}

\* update_or_create, first statement: SELECT ... FOR UPDATE of the row of
\* (news_post, portal); the row lock is held until the save
UpsertGet(p) ==
    /\ procs[p].pc = "get"
    /\ \A q \in DOMAIN procs : procs[q].pc # "save"
    /\ procs' = [procs EXCEPT ![p].pc = IF UpsertFound(ledger) = {} THEN "create" ELSE "save"]
    /\ UNCHANGED <<prompts, nextAssignmentId, posts, mappings, assignments, identities, ledger, nextId, calls, last,
                   prevLedger, prevMappings, alt>>

\* update_or_create, INSERT after the row was not found: unique_together
\* (news_post, portal) refuses a second row and the row is read again
UpsertCreate(p) ==
    /\ procs[p].pc = "create"
    /\ IF UpsertFound(ledger) = {}
       THEN /\ ledger' = ledger \cup {NewRow(nextId, 1, 1, UpsertDefaults(procs[p].outcome))}
            /\ nextId' = nextId + 1
            /\ procs' = [procs EXCEPT ![p].pc = "done"]
       ELSE /\ procs' = [procs EXCEPT ![p].pc = "get"]
            /\ UNCHANGED <<ledger, nextId>>
    /\ UNCHANGED <<prompts, nextAssignmentId, posts, mappings, assignments, identities, calls, last,
                   prevLedger, prevMappings, alt>>

\* update_or_create, UPDATE of the row found with the fields of defaults
UpsertSave(p) ==
    /\ procs[p].pc = "save"
    /\ ledger' = (ledger \ UpsertFound(ledger))
                   \cup {ApplyDefaults(r, UpsertDefaults(procs[p].outcome)) : r \in UpsertFound(ledger)}
    /\ procs' = [procs EXCEPT ![p].pc = "done"]
    /\ UNCHANGED <<prompts, nextAssignmentId, posts, mappings, assignments, identities, nextId, calls, last,
                   prevLedger, prevMappings, alt>>

UpsertGetStep == \E p \in DOMAIN procs : UpsertGet(p)

UpsertCreateStep == \E p \in DOMAIN procs : UpsertCreate(p)

UpsertSaveStep == \E p \in DOMAIN procs : UpsertSave(p)

\* every request has had its answer from the portal; the row does not exist yet
InitUpsertRace ==
    /\ posts = InitPosts
    /\ mappings = InitMappings
    /\ assignments = InitAssignments
    /\ identities = InitIdentities
    /\ ledger = {}
    /\ nextId = 1
    /\ calls = 0
    /\ last = NoRequest
    /\ prevLedger = {}
    /\ prevMappings = InitMappings
    /\ procs \in [1..Publishers -> [outcome : HttpOutcomes, pc : {"get"}]]
    /\ alt = NoAlt
    /\ prompts = PortalPromptRows
    /\ nextAssignmentId = 7

NextUpsertRace == UpsertGetStep \/ UpsertCreateStep \/ UpsertSaveStep

SpecUpsertRace == InitUpsertRace /\ [][NextUpsertRace]_vars

(* ----------------------- a request aborted midway --------------------- *)

\* a mutation of AbortedLedger: the rows written before the abort are rolled back
AbortedLedger_Rollback(before, written) == before

\* the table after a request that raised in the loop: every update_or_create
\* was committed on its own, the handler opens no transaction
AbortedLedger(before, written) == written

\* POST /api/master-news/{pk}/publish/ when open(news_post.post_image.path)
\* raises at the k-th target, after the targets before it were served; the
\* exception leaves the loop and is answered 500 by the outer handler
PublishAbort(user, pk, master_category_id, raw_excluded, k) ==
    LET excluded == NormalizeExcluded(raw_excluded)
        ms == SelectSeq(mappings, LAMBDA m : m.master_category = master_category_id)
        served == SubSeq(ms, 1, k - 1)
    IN
    /\ last.request.op = "none"
    /\ calls < MaxCalls
    /\ master_category_id # NoId
    /\ pk \in DOMAIN posts
    /\ DirectAssignments(user, master_category_id) # {}
    /\ ~NoPortalsMapped(ms)
    /\ k \in DispatchIdx(ms, user, excluded)
    /\ calls' = calls + 1
    /\ UNCHANGED <<prompts, nextAssignmentId, posts, mappings, assignments, identities, prevMappings, procs, alt>>
    /\ \E outs \in [DispatchIdx(served, user, excluded) -> HttpOutcomes] :
       \E replies \in [RewriteIdx(served, excluded) -> RewriteReplies] :
          LET done == PublishLoop(served, 1, user, pk, master_category_id, excluded, outs, replies,
                          [ ledger |-> ledger, nextId |-> nextId,
                            results |-> << >>, http |-> << >>, rewrites |-> << >>, raised |-> FALSE ])
              rewrites == IF ms[k].use_default_content THEN done.rewrites
                          ELSE Append(done.rewrites,
                                   [ index |-> k,
                                     portal |-> PortalCategory(ms[k].portal_category).portal,
                                     prompt_text |-> PromptTextFor(PortalCategory(ms[k].portal_category).portal) ])
          IN  /\ ledger' = AbortedLedger(ledger, done.ledger)
              /\ nextId' = done.nextId
              /\ prevLedger' = ledger
              /\ last' = [ request |-> Request("publish", user, pk, master_category_id, excluded, ms),
                           code |-> 500, ok |-> FALSE, message |-> MsgImageMissing,
                           results |-> << >>, http |-> done.http, rewrites |-> rewrites ]

PublishAbortRequest ==
    \E user \in Users : \E pk \in RequestedPostIds : \E mc \in MasterCategoryIds :
        \E raw \in ExcludedChoices : \E k \in DOMAIN mappings :
            PublishAbort(user, pk, mc, raw, k)

NextAbort == PublishRequest \/ PublishAbortRequest \/ Respond

\* one post to publish, an empty ledger
InitAbort ==
    /\ posts = [p \in {1} |-> InitPosts[p]]
    /\ mappings = InitMappings
    /\ assignments = InitAssignments
    /\ identities = InitIdentities
    /\ ledger = {}
    /\ nextId = 1
    /\ calls = 0
    /\ last = NoRequest
    /\ prevLedger = {}
    /\ prevMappings = InitMappings
    /\ procs = << >>
    /\ alt = NoAlt
    /\ prompts = PortalPromptRows
    /\ nextAssignmentId = 7

SpecAbort == InitAbort /\ [][NextAbort]_vars

(* ------------------- the targets in another order --------------------- *)

\* the mapping list in the order given by the permutation perm
Reordered(ms, perm) == [i \in DOMAIN ms |-> ms[perm[i]]]

\* POST /api/master-news/{pk}/publish/ served with the mappings in primary-key
\* order, the order the model gives the unordered queryset, and, for
\* comparison, what the same loop leaves when the queryset yields them in the
\* order perm, each target meeting the same remote answers
PublishInOrders(user, pk, master_category_id, raw_excluded, perm) ==
    LET excluded == NormalizeExcluded(raw_excluded)
        ms == SelectSeq(mappings, LAMBDA m : m.master_category = master_category_id)
        other == Reordered(ms, perm)
    IN
    /\ last.request.op = "none"
    /\ calls < MaxCalls
    /\ master_category_id # NoId
    /\ pk \in DOMAIN posts
    /\ DirectAssignments(user, master_category_id) # {}
    /\ ~NoPortalsMapped(ms)
    /\ calls' = calls + 1
    /\ UNCHANGED <<prompts, nextAssignmentId, posts, mappings, assignments, identities, prevMappings, procs>>
    /\ \E outs \in [DispatchIdx(ms, user, excluded) -> HttpOutcomes] :
       \E replies \in [RewriteIdx(ms, excluded) -> RewriteReplies] :
          LET start == [ ledger |-> ledger, nextId |-> nextId,
                         results |-> << >>, http |-> << >>, rewrites |-> << >>, raised |-> FALSE ]
              done == PublishLoop(ms, 1, user, pk, master_category_id, excluded, outs, replies, start)
              outs2 == [i \in DispatchIdx(other, user, excluded) |-> outs[perm[i]]]
              replies2 == [i \in RewriteIdx(other, excluded) |-> replies[perm[i]]]
              done2 == PublishLoop(other, 1, user, pk, master_category_id, excluded, outs2, replies2, start)
          IN  /\ ledger' = done.ledger
              /\ nextId' = done.nextId
              /\ prevLedger' = ledger
              /\ last' = [ request |-> Request("publish", user, pk, master_category_id, excluded, ms),
                           code |-> PublishedStatus(done.results), ok |-> TRUE,
                           message |-> MsgPublished, results |-> done.results,
                           http |-> done.http, rewrites |-> done.rewrites ]
              /\ alt' = [ran |-> TRUE, ledger |-> done2.ledger, results |-> done2.results]

PublishInOrdersRequest ==
    \E user \in Users : \E pk \in RequestedPostIds : \E mc \in MasterCategoryIds :
        \E raw \in ExcludedChoices :
            \E perm \in Permutations(1..Len(SelectSeq(mappings, LAMBDA m : m.master_category = mc))) :
                PublishInOrders(user, pk, mc, raw, perm)

NextOrder == PublishInOrdersRequest \/ Respond

SpecOrder == Init /\ [][NextOrder]_vars

(* ------------------- one post, every shape of content ------------------ *)

\* the optional fields of a MasterNewsPost present or absent
PostContents ==
    [ title : {"Big Match"}, short_description : {"match short"}, content : {"match body"},
      meta_title : {"", "City Meta"}, slug : {"", "city-own-slug"} ]

InitContent ==
    /\ posts \in {(1 :> c) : c \in PostContents}
    /\ mappings = InitMappings
    /\ assignments = InitAssignments
    /\ identities = InitIdentities
    /\ ledger = {}
    /\ nextId = 1
    /\ calls = 0
    /\ last = NoRequest
    /\ prevLedger = {}
    /\ prevMappings = InitMappings
    /\ procs = << >>
    /\ alt = NoAlt
    /\ prompts = PortalPromptRows
    /\ nextAssignmentId = 7

SpecContent == InitContent /\ [][Next]_vars

(* ---------------------- the generator on its own ---------------------- *)

\* the keys a returned JSON object may carry
ReplyKeySets ==
    { {"title", "short_description", "description", "meta_title", "slug"},
      {"title", "short_description", "description"},
      {"title"}, {"meta_title"}, {"slug"}, {} }

\* the JSON objects the rewrite service may return
ReplyDicts == {[k \in K |-> RewrittenObject[k]] : K \in ReplyKeySets}

\* the pieces a returned text is made of
Pieces == {Prose, ArrayText, OpenBrace, CloseBrace} \cup {ObjectText(d) : d \in ReplyDicts}

\* what client.responses.create may do
ServiceReplies ==
    {[raised |-> TRUE, output |-> << >>]}
      \cup {[raised |-> FALSE, output |-> t] : t \in UNION {[1..n -> Pieces] : n \in 0..MaxPieces}}

\* no result yet
NoVariant ==
    [ raised |-> FALSE, title |-> "", short |-> "", content |-> "", meta_title |-> "", slug |-> "" ]

\* one call of generate_variation_with_gpt with the fields of post 1
Generate ==
    /\ Len(procs) = 1
    /\ procs[1].pc = "call"
    /\ procs' = [procs EXCEPT
                    ![1].pc = "returned",
                    ![1].result = generate_variation_with_gpt(posts[1].title, posts[1].short_description,
                                      posts[1].content, PromptTextFor(1), posts[1].meta_title,
                                      posts[1].slug, procs[1].reply)]
    /\ UNCHANGED <<prompts, nextAssignmentId, posts, mappings, assignments, identities, ledger, nextId, calls, last,
                   prevLedger, prevMappings, alt>>

InitGenerate ==
    /\ posts \in {(1 :> c) : c \in PostContents}
    /\ mappings = InitMappings
    /\ assignments = InitAssignments
    /\ identities = InitIdentities
    /\ ledger = {}
    /\ nextId = 1
    /\ calls = 0
    /\ last = NoRequest
    /\ prevLedger = {}
    /\ prevMappings = InitMappings
    /\ procs \in {<<[pc |-> "call", reply |-> r, result |-> NoVariant]>> : r \in ServiceReplies}
    /\ alt = NoAlt
    /\ prompts = PortalPromptRows
    /\ nextAssignmentId = 7

NextGenerate == Generate

SpecGenerate == InitGenerate /\ [][NextGenerate]_vars

(* ------------- publishing with every kind of rewrite answer ----------- *)

\* the answers of the rewrite service a publish request may meet: an
\* exception, prose, broken braces, non-object JSON, objects with and without
\* all keys, an object inside prose
DispatchReplies ==
    {r \in ServiceReplies : Len(r.output) <= 1}
      \cup { [raised |-> FALSE, output |-> <<Prose, ObjectText(RewrittenObject)>>],
             [raised |-> FALSE, output |-> <<OpenBrace, ObjectText(RewrittenObject)>>] }

PublishRewriteRequest ==
    \E user \in Users, pk \in RequestedPostIds,
       master_category_id \in MasterCategoryIds \cup {NoId},
       raw_excluded \in ExcludedChoices :
        PublishWith(user, pk, master_category_id, raw_excluded, DispatchReplies)

NextRewrite == PublishRewriteRequest \/ Respond

SpecRewrite == InitAbort /\ [][NextRewrite]_vars

(* ---------------------------- assignments ----------------------------- *)

Group(id) == CHOOSE g \in GroupRows : g.id = id

RECURSIVE InIdOrder(_)
\* the rows of a queryset in primary-key order
InIdOrder(rows) ==
    IF rows = {} THEN << >>
    ELSE LET r == First(rows) IN <<r>> \o InIdOrder(rows \ {r})

RECURSIVE Ascending(_)
\* group.master_categories.all(): the ids in ascending order
Ascending(ids) ==
    IF ids = {} THEN << >>
    ELSE LET x == CHOOSE a \in ids : \A b \in ids : a <= b IN <<x>> \o Ascending(ids \ {x})

RECURSIVE Flatten(_)
\* the lists of a list appended one after the other
Flatten(lists) == IF lists = << >> THEN << >> ELSE Head(lists) \o Flatten(Tail(lists))

\* the (portal, portal_category) pairs of the mappings of one master category
MappedPairs(mc) ==
    LET ms == SelectSeq(mappings, LAMBDA m : m.master_category = mc)
    IN  [i \in DOMAIN ms |-> [ portal |-> PortalCategory(ms[i].portal_category).portal,
                               portal_category |-> ms[i].portal_category ]]

\* a mutation of get_portals_from_assignment: the group of the assignment is not expanded
get_portals_from_assignment_NoGroup(assignment) ==
    IF assignment.master_category # NoId THEN MappedPairs(assignment.master_category) ELSE << >>

\* get_portals_from_assignment(assignment)
get_portals_from_assignment(assignment) ==
    LET direct == IF assignment.master_category # NoId
                  THEN MappedPairs(assignment.master_category) ELSE << >>
        cats   == IF assignment.group # NoId
                  THEN Ascending(Group(assignment.group).master_categories) ELSE << >>
    IN  direct \o Flatten([i \in DOMAIN cats |-> MappedPairs(cats[i])])

\* a mutation of UniquePortals: every pair adds its portal
UniquePortals_All(pairs, seen) == seen \o [i \in DOMAIN pairs |-> pairs[i].portal]

RECURSIVE UniquePortals(_, _)
\* portal_set[portal.id] = portal for every pair: a dict, one entry per portal id
UniquePortals(pairs, seen) ==
    IF pairs = << >> THEN seen
    ELSE UniquePortals(Tail(pairs),
             IF \E i \in DOMAIN seen : seen[i] = Head(pairs).portal
             THEN seen ELSE Append(seen, Head(pairs).portal))

\* the answer of an assignment request
AssignmentAnswer(op, user, asked, code, ok, results, calls_) ==
    [ request |-> Request(op, user, NoId, NoId, [is_list |-> TRUE, ids |-> {}, names |-> {}], asked),
      code |-> code, ok |-> ok, message |-> "",
      results |-> results, http |-> << >>, rewrites |-> calls_ ]

\* GET /api/user/assigned-portals/
AssignedPortals(user) ==
    LET rows == InIdOrder({a \in assignments : a.user = user})
        per  == [i \in DOMAIN rows |-> get_portals_from_assignment(rows[i])]
        log  == [i \in DOMAIN rows |-> [assignment |-> rows[i], portals |-> per[i]]]
    IN
    /\ last.request.op = "none"
    /\ UNCHANGED <<posts, mappings, assignments, identities, ledger, nextId, calls, prevLedger,
                   prevMappings, procs, alt, prompts, nextAssignmentId>>
    /\ IF rows = << >>
       THEN last' = AssignmentAnswer("assigned_portals", user, << >>, 404, FALSE, << >>, << >>)
       ELSE last' = AssignmentAnswer("assigned_portals", user, << >>, 200, TRUE,
                                     UniquePortals(Flatten(per), << >>), log)

\* a mutation of AssignmentValid: a request naming both lists is accepted
AssignmentValid_AcceptsBoth(groups, master_categories) ==
    /\ groups # << >> \/ master_categories # << >>
    /\ \A i \in DOMAIN groups : groups[i] \in {g.id : g \in GroupRows}
    /\ \A i \in DOMAIN master_categories : master_categories[i] \in MasterCategoryIds

\* UserAssignmentCreateSerializer.is_valid(): every id names a row, and
\* exactly one of the two lists is non-empty
AssignmentValid(groups, master_categories) ==
    /\ \A i \in DOMAIN groups : groups[i] \in {g.id : g \in GroupRows}
    /\ \A i \in DOMAIN master_categories : master_categories[i] \in MasterCategoryIds
    /\ groups # << >> \/ master_categories # << >>
    /\ ~(groups # << >> /\ master_categories # << >>)

RECURSIVE CreateAssignments(_, _, _, _, _, _)
\* the get_or_create loop of UserAssignmentCreateSerializer.create over the
\* list items; by_group says which column the items fill
CreateAssignments(rows, id, user, items, by_group, out) ==
    IF items = << >> THEN [assignments |-> rows, nextAssignmentId |-> id, out |-> out]
    ELSE LET found == {a \in rows : /\ a.user = user
                                    /\ IF by_group THEN a.group = Head(items)
                                       ELSE a.master_category = Head(items)}
             new == [ id |-> id, user |-> user,
                      master_category |-> IF by_group THEN NoId ELSE Head(items),
                      group |-> IF by_group THEN Head(items) ELSE NoId ]
         IN  IF found # {}
             THEN CreateAssignments(rows, id, user, Tail(items), by_group, Append(out, First(found)))
             ELSE CreateAssignments(rows \cup {new}, id + 1, user, Tail(items), by_group, Append(out, new))

\* POST /api/user-assignments/
AssignmentCreate(username, groups, master_categories) ==
    LET asked == [groups |-> groups, master_categories |-> master_categories]
        done  == IF groups # << >>
                 THEN CreateAssignments(assignments, nextAssignmentId, username, groups, TRUE, << >>)
                 ELSE CreateAssignments(assignments, nextAssignmentId, username, master_categories, FALSE, << >>)
    IN
    /\ last.request.op = "none"
    /\ (AssignmentValid(groups, master_categories) /\ username \in Users)
          => done.nextAssignmentId - 1 <= MaxAssignmentId
    /\ UNCHANGED <<posts, mappings, identities, ledger, nextId, calls, prevLedger,
                   prevMappings, procs, alt, prompts>>
    /\ IF ~AssignmentValid(groups, master_categories)
       THEN /\ last' = AssignmentAnswer("assignment_create", username, asked, 400, FALSE, << >>, << >>)
            /\ UNCHANGED <<assignments, nextAssignmentId>>
       ELSE IF username \notin Users
       THEN /\ last' = AssignmentAnswer("assignment_create", username, asked, 500, FALSE, << >>, << >>)
            /\ UNCHANGED <<assignments, nextAssignmentId>>
       ELSE /\ assignments' = done.assignments
            /\ nextAssignmentId' = done.nextAssignmentId
            /\ last' = AssignmentAnswer("assignment_create", username, asked, 201, TRUE, done.out, << >>)

\* DELETE /api/user-assignments/remove/; valid is the verdict of the request serializer
AssignmentRemove(user, master_category_id, group_id, valid) ==
    LET asked == [groups |-> <<group_id>>, master_categories |-> <<master_category_id>>]
        qs == {a \in assignments :
                  /\ a.user = user
                  /\ master_category_id # NoId => a.master_category = master_category_id
                  /\ group_id # NoId => a.group = group_id}
    IN
    /\ last.request.op = "none"
    /\ UNCHANGED <<posts, mappings, identities, ledger, nextId, calls, prevLedger,
                   prevMappings, procs, alt, prompts, nextAssignmentId>>
    /\ IF ~valid
       THEN /\ last' = AssignmentAnswer("assignment_remove", user, asked, 400, FALSE, << >>, << >>)
            /\ UNCHANGED assignments
       ELSE IF qs = {}
       THEN /\ last' = AssignmentAnswer("assignment_remove", user, asked, 404, FALSE, << >>, << >>)
            /\ UNCHANGED assignments
       ELSE /\ assignments' = assignments \ qs
            /\ last' = AssignmentAnswer("assignment_remove", user, asked, 200, TRUE, << >>, << >>)

\* the users the assignment requests name; zed is no user
AssignmentUsers == {"alice", "carol"}

\* the id lists a client sends; 9 names no row
IdListChoices == {<< >>, <<1>>, <<2>>, <<3>>, <<9>>, <<1, 2>>, <<1, 1>>}

AssignedPortalsRequest == \E user \in AssignmentUsers : AssignedPortals(user)

AssignmentCreateRequest ==
    \E username \in AssignmentUsers \cup {"zed"} :
        \E groups \in IdListChoices : \E master_categories \in IdListChoices :
            AssignmentCreate(username, groups, master_categories)

AssignmentRemoveRequest ==
    \E user \in AssignmentUsers :
        \E master_category_id \in MasterCategoryIds \cup {NoId} :
            \E group_id \in {g.id : g \in GroupRows} \cup {NoId} : \E valid \in BOOLEAN :
                AssignmentRemove(user, master_category_id, group_id, valid)

\* an empty UserCategoryGroupAssignment table
InitAssign ==
    /\ posts = InitPosts
    /\ mappings = InitMappings
    /\ assignments = {}
    /\ identities = InitIdentities
    /\ ledger = {}
    /\ nextId = 1
    /\ calls = 0
    /\ last = NoRequest
    /\ prevLedger = {}
    /\ prevMappings = InitMappings
    /\ procs = << >>
    /\ alt = NoAlt
    /\ prompts = PortalPromptRows
    /\ nextAssignmentId = 1

NextAssign == AssignmentCreateRequest \/ AssignmentRemoveRequest \/ AssignedPortalsRequest \/ Respond

SpecAssign == InitAssign /\ [][NextAssign]_vars

(* ------------------ a post edited between two requests ---------------- *)

\* what the change form of the admin site can save into the content fields
EditedContents ==
    { [ title |-> "Late Goal", short_description |-> "late short", content |-> "match body",
        meta_title |-> "", slug |-> "" ],
      [ title |-> "Late Goal", short_description |-> "late short", content |-> "late body",
        meta_title |-> "City Meta", slug |-> "city-own-slug" ],
      [ title |-> "Big Match", short_description |-> "match short", content |-> "match body",
        meta_title |-> "City Meta", slug |-> "" ] }

\* MasterNewsPostAdmin: an editor saves the change form of the post pk
EditPost(pk, fields) ==
    /\ last.request.op = "none"
    /\ pk \in DOMAIN posts
    /\ posts[pk] # fields
    /\ calls \in 1..(MaxCalls - 1)
    /\ posts' = [posts EXCEPT ![pk] = fields]
    /\ UNCHANGED <<prompts, nextAssignmentId, mappings, assignments, identities, ledger, nextId,
                   calls, last, prevLedger, prevMappings, procs, alt>>

EditPostRequest == \E pk \in RequestedPostIds : \E fields \in EditedContents : EditPost(pk, fields)

NextEdit == PublishRequest \/ EditPostRequest \/ Respond

SpecEdit == InitAbort /\ [][NextEdit]_vars

(* ------------------------ every table of prompts ---------------------- *)

\* the PortalPrompt rows the table may hold
PromptChoices ==
    { [id |-> 1, portal |-> 1,    prompt_text |-> "style of PortalA",     is_active |-> TRUE],
      [id |-> 2, portal |-> 1,    prompt_text |-> "old style of PortalA", is_active |-> FALSE],
      [id |-> 3, portal |-> 2,    prompt_text |-> "style of PortalB",     is_active |-> TRUE],
      [id |-> 4, portal |-> NoId, prompt_text |-> "global style",         is_active |-> TRUE],
      [id |-> 5, portal |-> NoId, prompt_text |-> "old global style",     is_active |-> FALSE] }

InitPrompt ==
    /\ posts = [p \in {1} |-> InitPosts[p]]
    /\ mappings = InitMappings
    /\ assignments = InitAssignments
    /\ identities = InitIdentities
    /\ ledger = {}
    /\ nextId = 1
    /\ calls = 0
    /\ last = NoRequest
    /\ prevLedger = {}
    /\ prevMappings = InitMappings
    /\ procs = << >>
    /\ alt = NoAlt
    /\ prompts \in SUBSET PromptChoices
    /\ nextAssignmentId = 7

SpecPrompt == InitPrompt /\ [][Next]_vars

(* ------------------------ vocabulary of the claims -------------------- *)

\* the most recent publish request went through the loop over its mappings
Dispatched == last.request.op = "publish" /\ last.code = 200

\* the most recent publish request was rejected before the loop
RejectedCall == last.request.op = "publish" /\ last.code # 200

\* portal id of the i-th resolved target of the most recent request
TargetPortalId(i) == PortalCategory(last.request.targets[i].portal_category).portal

\* the outbound publish calls the most recent request made to portal x
HttpTo(x) == {j \in DOMAIN last.http : last.http[j].portal = x}

\* the rewrite-service calls the most recent request made for portal x
RewritesFor(x) == {j \in DOMAIN last.rewrites : last.rewrites[j].portal = x}

\* the ledger rows of a (post, portal) pair
RowsFor(rows, post, x) == {r \in rows : r.news_post = post /\ r.portal = x}

\* the acting user has a PortalUserMapping row with status MATCHED for portal x
HasMatchedIdentity(user, x) ==
    \E m \in identities : m.user = user /\ m.portal = x /\ m.status = "MATCHED"

\* the request names portal x, by id or by name, in excluded_portals
NamedInExcluded(x) ==
    \/ x \in last.request.excluded.ids
    \/ \E p \in PortalRows : p.id = x /\ p.name \in last.request.excluded.names

\* the outbound call failed in transport: an exception or a status other than 200/201
TransportFailure(out) == out.exc \/ out.code \notin {200, 201}

(* -------------------------------- C1 ---------------------------------- *)

\* C1: the ledger holds at most one NewsDistribution row per (post, portal),
\* and every row that existed before a request still exists after it under the
\* same primary key and the same (post, portal): a re-publish updates in place.
C1_OneRecordPerPair ==
    /\ \A r1 \in ledger : \A r2 \in ledger :
          (r1.news_post = r2.news_post /\ r1.portal = r2.portal) => r1 = r2
    /\ \A r \in prevLedger : \E q \in ledger :
          q.id = r.id /\ q.news_post = r.news_post /\ q.portal = r.portal
    /\ Cardinality(ledger) = Cardinality({<<r.news_post, r.portal>> : r \in ledger})

\* a publish request has re-sent a post to a portal that already had a row
C1_Witness ==
    /\ Dispatched
    /\ \E r \in prevLedger :
          /\ r.news_post = last.request.pk
          /\ HttpTo(r.portal) # {}
          /\ Cardinality(RowsFor(ledger, r.news_post, r.portal)) = 1

(* -------------------------------- C2 ---------------------------------- *)

\* C2: a request that makes one attempt for (post, portal) leaves exactly one
\* row for the pair; its retry_count is 0 when the pair had no row before and
\* one more than before when it had.
C2_RetryCountIncrements ==
    Dispatched =>
        \A p \in PortalRows :
            LET before == RowsFor(prevLedger, last.request.pk, p.id)
                after  == RowsFor(ledger, last.request.pk, p.id)
            IN  Cardinality(HttpTo(p.id)) = 1 =>
                    /\ Cardinality(after) = 1
                    /\ before = {} => \A q \in after : q.retry_count = 0
                    /\ \A r \in before : \A q \in after : q.retry_count = r.retry_count + 1

(* -------------------------------- C3 ---------------------------------- *)

\* C3: when the row of (post, portal) has status SUCCESS before a publish
\* request, the request makes no outbound call to that portal and leaves the
\* row unchanged.
C3_SkipIfSuccess ==
    Dispatched =>
        \A i \in DOMAIN last.request.targets :
            LET x == TargetPortalId(i)
                before == RowsFor(prevLedger, last.request.pk, x)
            IN  (\E r \in before : r.status = "SUCCESS") =>
                    /\ HttpTo(x) = {}
                    /\ RowsFor(ledger, last.request.pk, x) = before

(* -------------------------------- C4 ---------------------------------- *)

\* C4: a row that had status SUCCESS before a request has status SUCCESS after
\* it, and no row is left in status PENDING by a request that wrote it.
C4_SuccessIsFinal ==
    /\ \A r \in prevLedger : \A q \in ledger :
          (q.id = r.id /\ r.status = "SUCCESS") => q.status = "SUCCESS"
    /\ \A q \in ledger : q.status \in {"SUCCESS", "FAILED"}

(* -------------------------------- C5 ---------------------------------- *)

\* C5: every target is answered by one result entry, and for a target that is
\* not excluded and whose portal has no MATCHED identity row of the acting user
\* the entry is the missing-identity failure, no outbound call goes to that
\* portal and the rows of (post, portal) are exactly those before the request.
C5_MissingIdentitySkipsPortal ==
    Dispatched =>
        /\ Len(last.results) = Len(last.request.targets)
        /\ \A i \in DOMAIN last.request.targets :
              LET x == TargetPortalId(i)
              IN  (~NamedInExcluded(x) /\ ~HasMatchedIdentity(last.request.user, x)) =>
                      /\ last.results[i].success = FALSE
                      /\ last.results[i].response = MsgNoMapping
                      /\ last.results[i].portal = Portal(x).name
                      /\ HttpTo(x) = {}
                      /\ RowsFor(ledger, last.request.pk, x) = RowsFor(prevLedger, last.request.pk, x)

\* one portal of the batch lacked a MATCHED identity and another was dispatched
C5_Witness ==
    /\ Dispatched
    /\ \E i \in DOMAIN last.request.targets : \E j \in DOMAIN last.request.targets :
          /\ i < j
          /\ ~HasMatchedIdentity(last.request.user, TargetPortalId(i))
          /\ last.results[i].response = MsgNoMapping
          /\ HttpTo(TargetPortalId(j)) # {}
          /\ last.results[j].success = TRUE

(* -------------------------------- C6 ---------------------------------- *)

\* C6: every outbound call carries as author the portal_user_id of a MATCHED
\* identity row of (acting user, portal); a target whose only row is PENDING or
\* MISMATCH is answered like a target with no row at all.
C6_AuthorIsMatchedIdentity ==
    Dispatched =>
        /\ \A j \in DOMAIN last.http :
              \E m \in identities :
                  /\ m.user = last.request.user
                  /\ m.portal = last.http[j].portal
                  /\ m.status = "MATCHED"
                  /\ last.http[j].payload.author = m.portal_user_id
        /\ \A i \in DOMAIN last.request.targets :
              LET x == TargetPortalId(i)
                  rowsOfUser == {m \in identities : m.user = last.request.user /\ m.portal = x}
              IN  (~NamedInExcluded(x) /\ \A m \in rowsOfUser : m.status \in {"PENDING", "MISMATCH"}) =>
                      last.results[i] = [ portal |-> Portal(x).name,
                                          category |-> PortalCategory(last.request.targets[i].portal_category).name,
                                          success |-> FALSE, response |-> MsgNoMapping ]

\* a user with a PENDING row for one portal and a MATCHED row for another was
\* dispatched to the second under the MATCHED row's portal_user_id
C6_Witness ==
    /\ Dispatched
    /\ \E m \in identities :
          /\ m.user = last.request.user /\ m.status = "PENDING"
          /\ HttpTo(m.portal) = {}
    /\ \E j \in DOMAIN last.http : last.http[j].payload.author = "b-222"

(* -------------------------------- C7 ---------------------------------- *)

C8_TransportFailureRecorded ==
    \A j \in DOMAIN last.http :
        LET h == last.http[j]
        IN  TransportFailure(h.outcome) =>
                /\ last.code = 200
                /\ Len(last.results) = Len(last.request.targets)
                /\ h.obj.status = "FAILED"
                /\ h.obj.response_message = h.outcome.text
                /\ last.results[h.index].success = FALSE
                /\ last.results[h.index].response = h.outcome.text
                /\ (\A k \in DOMAIN last.http : (k > j) => last.http[k].portal # h.portal)
                      => h.obj \in ledger

\* an outbound call raised, and a later target of the same batch was delivered
C8_Witness ==
    /\ Dispatched
    /\ \E j \in DOMAIN last.http : \E k \in DOMAIN last.http :
          /\ j < k
          /\ last.http[j].outcome.exc
          /\ last.http[k].outcome.code = 201
          /\ last.http[j].portal # last.http[k].portal
          /\ \E r \in ledger : r.portal = last.http[j].portal /\ r.status = "FAILED"
                                /\ r.news_post = last.request.pk

(* -------------------------------- C9 ---------------------------------- *)

\* C9: the row written for an attempt has status SUCCESS exactly when the
\* outbound call returned 200 or 201 and FAILED otherwise, and the result entry
\* of the attempt carries that row's status as its success flag and that row's
\* response_message as its response.
C9_SuccessIff200Or201 ==
    \A j \in DOMAIN last.http :
        LET h == last.http[j]
        IN  /\ h.obj.status = IF (~h.outcome.exc /\ h.outcome.code \in {200, 201})
                              THEN "SUCCESS" ELSE "FAILED"
            /\ last.results[h.index].success = (h.obj.status = "SUCCESS")
            /\ last.results[h.index].response = h.obj.response_message
            /\ h.obj.news_post = last.request.pk /\ h.obj.portal = h.portal
            /\ (\A k \in DOMAIN last.http : (k > j) => last.http[k].portal # h.portal)
                  => h.obj \in ledger

\* one request got 200 from one portal and 204 from another
C9_Witness ==
    /\ Dispatched
    /\ \E j \in DOMAIN last.http : \E k \in DOMAIN last.http :
          /\ last.http[j].outcome.code = 200 /\ last.http[j].obj.status = "SUCCESS"
          /\ last.http[k].outcome.code = 204 /\ last.http[k].obj.status = "FAILED"

(* -------------------------------- C10 --------------------------------- *)

\* C10: a publish request naming no category, a post that does not exist or a
\* category without mappings is rejected; a rejected request has made no
\* rewrite call and no outbound call and has left the ledger as it was; a
\* category without mappings, named by an assigned user for an existing post,
\* is answered 400 "No portals mapped".
C10_ValidationAbortsBeforeDispatch ==
    last.request.op = "publish" =>
        LET unmapped == \A i \in DOMAIN mappings :
                            mappings[i].master_category # last.request.master_category_id
        IN  /\ RejectedCall =>
                  /\ last.http = << >> /\ last.rewrites = << >> /\ last.results = << >>
                  /\ ledger = prevLedger
                  /\ last.ok = FALSE
            /\ (last.request.master_category_id = NoId
                  \/ last.request.pk \notin DOMAIN posts
                  \/ unmapped) => RejectedCall
            /\ (/\ unmapped
                /\ last.request.master_category_id # NoId
                /\ last.request.pk \in DOMAIN posts
                /\ \E a \in assignments : a.user = last.request.user
                                           /\ a.master_category = last.request.master_category_id)
                  => (last.code = 400 /\ last.message = MsgNoPortals)

\* a request for a category without mappings was rejected after an earlier
\* request had written the ledger
C10_Witness ==
    /\ RejectedCall
    /\ last.message = MsgNoPortals
    /\ ledger # {}
    /\ ledger = prevLedger

(* -------------------------------- C11 --------------------------------- *)

C12_DefaultMappingFallback ==
    (/\ last.request.op = "publish"
     /\ last.request.master_category_id = NoId
     /\ last.request.pk \in DOMAIN posts) =>
        LET defaults == {i \in DOMAIN mappings : mappings[i].is_default}
        IN  /\ defaults = {} => (RejectedCall /\ last.message = MsgNoDefault)
            /\ (\E i \in defaults : \E a \in assignments :
                    a.user = last.request.user /\ a.master_category = mappings[i].master_category)
                  => /\ Dispatched
                     /\ \E i \in defaults : \A t \in DOMAIN last.request.targets :
                            last.request.targets[t].master_category = mappings[i].master_category

(* -------------------------------- C16 --------------------------------- *)

\* C16: a request without exclusions whose targets lie on pairwise distinct
\* portals has one result entry per target, each naming its own portal, and
\* every outbound call carries as post_cat the external_id of the
\* PortalCategory of its own target, which belongs to the portal called.
C16_OwnExternalCategoryId ==
    Dispatched =>
        /\ (/\ last.request.excluded.ids = {} /\ last.request.excluded.names = {}
            /\ \A i \in DOMAIN last.request.targets : \A k \in DOMAIN last.request.targets :
                   i # k => TargetPortalId(i) # TargetPortalId(k))
              => /\ Len(last.results) = Len(last.request.targets)
                 /\ \A i \in DOMAIN last.results : \A k \in DOMAIN last.results :
                        i # k => last.results[i].portal # last.results[k].portal
                 /\ \A i \in DOMAIN last.results :
                        \E p \in PortalRows : p.id = TargetPortalId(i) /\ p.name = last.results[i].portal
        /\ \A j \in DOMAIN last.http :
              \E c \in PortalCategoryRows :
                  /\ c.id = last.request.targets[last.http[j].index].portal_category
                  /\ c.portal = last.http[j].portal
                  /\ last.http[j].payload.post_cat = c.external_id

\* a category mapped to two portals was published without exclusions: two
\* entries, PortalA was sent "12" and PortalB "7"
C16_Witness ==
    /\ Dispatched
    /\ last.request.excluded.ids = {} /\ last.request.excluded.names = {}
    /\ Len(last.results) = 2
    /\ \E j \in DOMAIN last.http : last.http[j].portal = 1 /\ last.http[j].payload.post_cat = "12"
    /\ \E j \in DOMAIN last.http : last.http[j].portal = 2 /\ last.http[j].payload.post_cat = "7"

(* -------------------------------- C17 --------------------------------- *)

\* C17: a publish request makes at most one outbound call per portal, also
\* when several of its targets lie on the same portal.
C17_OneAttemptPerPortal ==
    Dispatched => \A p \in PortalRows : Cardinality(HttpTo(p.id)) <= 1

(* -------------------------------- C20 --------------------------------- *)

\* C20: for a target whose mapping has use_default_content, the outbound
\* payload and the stored variant carry the post's title, short description
\* and body, as meta title the post's meta title or else its title, and as
\* slug the post's slug or else the slug derived from that meta title; the
\* rewrite service is not called for that target.
C20_PassthroughKeepsCanonicalFields ==
    Dispatched =>
        LET post == posts[last.request.pk]
            meta == IF post.meta_title # "" THEN post.meta_title ELSE post.title
            slug == IF post.slug # "" THEN post.slug ELSE slugify(meta)
        IN  /\ \A i \in DOMAIN last.request.targets :
                  last.request.targets[i].use_default_content =>
                      \A k \in DOMAIN last.rewrites : last.rewrites[k].index # i
            /\ \A j \in DOMAIN last.http :
                  LET h == last.http[j]
                  IN  last.request.targets[h.index].use_default_content =>
                          /\ h.payload.post_title = post.title
                          /\ h.payload.post_short_des = post.short_description
                          /\ h.payload.post_des = post.content
                          /\ h.payload.meta_title = meta
                          /\ h.payload.slug = slug
                          /\ h.obj.ai_title = post.title
                          /\ h.obj.ai_short_description = post.short_description
                          /\ h.obj.ai_content = post.content
                          /\ h.obj.ai_meta_title = meta
                          /\ h.obj.ai_slug = slug

\* a post with its own slug and meta title was sent through a passthrough mapping
C20_Witness ==
    /\ Dispatched
    /\ posts[last.request.pk].slug = "city-own-slug"
    /\ posts[last.request.pk].meta_title = "City Meta"
    /\ \E j \in DOMAIN last.http :
          /\ last.request.targets[last.http[j].index].use_default_content
          /\ last.http[j].payload.slug = "city-own-slug"
          /\ last.http[j].payload.post_title = "Big Match"

(* -------------------------------- C13 --------------------------------- *)

\* the mappings of portal x that are flagged as default
DefaultsOf(rows, x) ==
    {i \in DOMAIN rows : rows[i].is_default /\ PortalCategory(rows[i].portal_category).portal = x}

\* C13: after any sequence of mapping POST and PATCH requests served one
\* after the other, every portal has at most one mapping with is_default.
C13_AtMostOneDefaultPerPortal ==
    \A p \in PortalRows : Cardinality(DefaultsOf(mappings, p.id)) <= 1

\* a request moved the default of a portal from one mapping to a sibling
C13_Witness ==
    /\ last.request.op \in {"mapping_post", "mapping_patch"}
    /\ \E p \in PortalRows :
          \E i \in DefaultsOf(prevMappings, p.id) :
              \E j \in DefaultsOf(mappings, p.id) :
                  /\ i # j
                  /\ ~mappings[i].is_default

(* -------------------------------- C14 --------------------------------- *)

\* C14: when two PATCH requests that set is_default on two different mappings
\* of one portal have both completed, however their steps interleaved, that
\* portal has at most one mapping with is_default.
C14_SetDefaultIsTransactional ==
    ( /\ Len(procs) = 2
      /\ \A p \in DOMAIN procs :
            /\ procs[p].pc = "done"
            /\ procs[p].is_default = [given |-> TRUE, value |-> TRUE]
      /\ PortalCategory(mappings[procs[1].pk].portal_category).portal
           = PortalCategory(mappings[procs[2].pk].portal_category).portal )
    => Cardinality(DefaultsOf(mappings,
                              PortalCategory(mappings[procs[1].pk].portal_category).portal)) <= 1

(* -------------------------------- C15 --------------------------------- *)

\* C15: when N concurrent publish attempts for one (post, portal) without a
\* row have all completed, the pair has exactly one row and its retry_count
\* counts all N attempts (N - 1 retries after the first).
C15_ConcurrentUpsertKeepsCount ==
    (\A p \in DOMAIN procs : procs[p].pc = "done") /\ procs # << >>
    => /\ Cardinality(RowsFor(ledger, 1, 1)) = 1
       /\ \A r \in RowsFor(ledger, 1, 1) : r.retry_count = Len(procs) - 1

(* -------------------------------- C18 --------------------------------- *)

\* the most recent request was aborted in its loop
AbortedCall == last.request.op = "publish" /\ last.code = 500 /\ last.message = MsgImageMissing

\* C18: after a publish request aborted part-way, every portal it had already
\* called has its row in the ledger with the outcome of the last call made to
\* it, and no row that existed before the request has been removed.
C18_AbortKeepsWrittenRecords ==
    AbortedCall =>
        /\ \A p \in PortalRows :
              HttpTo(p.id) # {} =>
                  LET j == CHOOSE a \in HttpTo(p.id) : \A b \in HttpTo(p.id) : b <= a
                      out == last.http[j].outcome
                      delivered == ~TransportFailure(out) /\ out.code \in {200, 201}
                  IN  \E r \in RowsFor(ledger, last.request.pk, p.id) :
                          /\ r.status = (IF delivered THEN "SUCCESS" ELSE "FAILED")
                          /\ r.response_message = out.text
        /\ \A r \in prevLedger : \E q \in ledger : q.id = r.id

\* an aborted request had already called a portal and written a row that was not there before
C18_Witness ==
    /\ AbortedCall
    /\ last.http # << >>
    /\ \E r \in ledger : \A q \in prevLedger : q.id # r.id

(* -------------------------------- C19 --------------------------------- *)

\* the rows of a table without their primary keys
WithoutIds(rows) == {[r EXCEPT !.id = NoId] : r \in rows}

\* how often e occurs in the sequence q
Occurrences(q, e) == Cardinality({i \in DOMAIN q : q[i] = e})

\* C19: with the remote answer of every target fixed, serving the targets of
\* a publish request in another order leaves the same ledger and the same
\* multiset of result entries.
C19_TargetOrderIrrelevant ==
    alt.ran =>
        /\ WithoutIds(ledger) = WithoutIds(alt.ledger)
        /\ Len(last.results) = Len(alt.results)
        /\ \A i \in DOMAIN last.results :
              Occurrences(last.results, last.results[i]) = Occurrences(alt.results, last.results[i])

(* -------------------------------- C21 --------------------------------- *)

\* the generator has returned
Returned == Len(procs) = 1 /\ procs[1].pc = "returned"

\* the five fields of a variant
FiveFields(v) == <<v.title, v.short, v.content, v.meta_title, v.slug>>

\* the whole text is one JSON value
WholeJson(text) == Len(text) = 1 /\ text[1].t \in {"object", "array"}

\* the positions of the JSON objects in a text
ObjectsIn(text) == {i \in DOMAIN text : text[i].t = "object"}

\* C21: when the service call raises, or returns text that is not JSON and
\* holds no JSON object, the generator returns the five fields passthrough
\* mode gives for the same post, slug rule included.
C21_GarbageGivesPassthrough ==
    ( /\ Returned
      /\ \/ procs[1].reply.raised
         \/ ~WholeJson(procs[1].reply.output) /\ ObjectsIn(procs[1].reply.output) = {} )
    => FiveFields(procs[1].result) = FiveFields(PassthroughVariant(posts[1]))

\* text with braces but no JSON came back for a post that has its own slug
C21_Witness ==
    /\ Returned
    /\ ~procs[1].reply.raised
    /\ ObjectsIn(procs[1].reply.output) = {}
    /\ \E i \in DOMAIN procs[1].reply.output : procs[1].reply.output[i].t = "open"
    /\ \E i \in DOMAIN procs[1].reply.output : procs[1].reply.output[i].t = "close"
    /\ posts[1].slug = "city-own-slug"
    /\ procs[1].result.slug = "city-own-slug"

(* -------------------------------- C28 --------------------------------- *)

\* the fields taken from a decoded object, a missing key giving the canonical value
FromObject(data, post) ==
    LET meta == IF post.meta_title # "" THEN post.meta_title ELSE post.title
        slug == IF post.slug # "" THEN post.slug ELSE slugify(meta)
    IN  << IF "title" \in DOMAIN data THEN data["title"] ELSE post.title,
           IF "short_description" \in DOMAIN data THEN data["short_description"] ELSE post.short_description,
           IF "description" \in DOMAIN data THEN data["description"] ELSE post.content,
           IF "meta_title" \in DOMAIN data THEN data["meta_title"] ELSE meta,
           IF "slug" \in DOMAIN data THEN data["slug"] ELSE slug >>

\* C28: a text that is a JSON object as a whole gives the fields of that
\* object; a text that is not JSON gives the fields of the first JSON object
\* it holds; a text without one, or a call that raised, gives the passthrough
\* fields; keys missing from the object are filled from the post.
C28_ParsingOrder ==
    Returned =>
        LET reply == procs[1].reply
            text  == reply.output
            first == CHOOSE i \in ObjectsIn(text) : \A j \in ObjectsIn(text) : i <= j
        IN  IF reply.raised
            THEN FiveFields(procs[1].result) = FiveFields(PassthroughVariant(posts[1]))
            ELSE IF WholeJson(text)
            THEN text[1].t = "object" => FiveFields(procs[1].result) = FromObject(text[1].data, posts[1])
            ELSE IF ObjectsIn(text) # {}
            THEN FiveFields(procs[1].result) = FromObject(text[first].data, posts[1])
            ELSE FiveFields(procs[1].result) = FiveFields(PassthroughVariant(posts[1]))

(* -------------------------------- C22 --------------------------------- *)

\* C22: whatever the rewrite service answers, a publish request that has
\* resolved its targets is answered 200 with one result entry per target,
\* and every target that is not excluded and whose user has a matched
\* identity gets its HTTP call, rewritten or not.
C22_GenerationNeverStopsDispatch ==
    (last.request.op = "publish" /\ last.request.targets # << >>) =>
        /\ last.code = 200
        /\ Len(last.results) = Len(last.request.targets)
        /\ \A i \in DOMAIN last.request.targets :
              ( /\ ~NamedInExcluded(TargetPortalId(i))
                /\ HasMatchedIdentity(last.request.user, TargetPortalId(i)) )
              => \E j \in DOMAIN last.http :
                    /\ last.http[j].index = i
                    /\ last.http[j].payload.post_title # ""
                    /\ last.http[j].payload.slug # ""

\* a target that asks for a rewrite was sent the post's own title: the
\* generation had failed and the portal was called all the same, as was the
\* portal after it
C22_Witness ==
    /\ Dispatched
    /\ \E j, k \in DOMAIN last.http :
          /\ ~last.request.targets[last.http[j].index].use_default_content
          /\ last.http[j].payload.post_title = posts[last.request.pk].title
          /\ last.http[k].index > last.http[j].index

(* -------------------------------- C23 --------------------------------- *)

\* the master categories an assignment row selects, directly or through its group
CategoriesOf(a) ==
    (IF a.master_category # NoId THEN {a.master_category} ELSE {})
      \cup UNION {g.master_categories : g \in {h \in GroupRows : h.id = a.group}}

\* the mapping rows reachable from an assignment row
ReachableMappings(a) == {i \in DOMAIN mappings : mappings[i].master_category \in CategoriesOf(a)}

\* the portal of mapping row i
MappingPortal(i) == PortalCategory(mappings[i].portal_category).portal

\* the most recent request listed the portals assigned to its user
Listed == last.request.op = "assigned_portals" /\ last.code = 200

C24_OneEntryPerReachableMapping ==
    Listed =>
        \A k \in DOMAIN last.rewrites :
            LET a     == last.rewrites[k].assignment
                pairs == last.rewrites[k].portals
            IN  /\ Len(pairs) = Cardinality(ReachableMappings(a))
                /\ \A i \in ReachableMappings(a) :
                      Occurrences(pairs, [ portal |-> MappingPortal(i),
                                           portal_category |-> mappings[i].portal_category ])
                        = Cardinality({j \in ReachableMappings(a) :
                                          mappings[j].portal_category = mappings[i].portal_category})

\* a group assignment gave more entries than it has portals
C24_Witness ==
    /\ Listed
    /\ \E k \in DOMAIN last.rewrites :
          /\ last.rewrites[k].assignment.group # NoId
          /\ Len(last.rewrites[k].portals) = 4
          /\ Cardinality({last.rewrites[k].portals[i].portal : i \in DOMAIN last.rewrites[k].portals}) = 2

(* -------------------------------- C25 --------------------------------- *)

\* an assignment row names a group or a master category, not both and not neither
ExactlyOneSelector(a) == (a.group = NoId) # (a.master_category = NoId)

\* the create request being answered names both lists or neither
NamesBothOrNeither(req) ==
    \/ req.targets.groups # << >> /\ req.targets.master_categories # << >>
    \/ req.targets.groups = << >> /\ req.targets.master_categories = << >>

\* every item of the create request being answered has its row already
AlreadyAssigned(req) ==
    /\ \A i \in DOMAIN req.targets.groups :
          \E a \in assignments : a.user = req.user /\ a.group = req.targets.groups[i]
    /\ \A i \in DOMAIN req.targets.master_categories :
          \E a \in assignments : a.user = req.user /\ a.master_category = req.targets.master_categories[i]

\* C25: every assignment row names exactly one of a group and a master
\* category; a create request naming both lists or neither is answered 400
\* and changes no row; a create request whose items all have their row adds
\* none.
C25_AssignmentNamesExactlyOne ==
    /\ [](\A a \in assignments : ExactlyOneSelector(a))
    /\ [][ last'.request.op = "assignment_create" =>
              /\ NamesBothOrNeither(last'.request) => (last'.code = 400 /\ assignments' = assignments)
              /\ AlreadyAssigned(last'.request) => assignments' = assignments ]_vars

\* a request naming a group and a master category was rejected while the user held rows
C25_Witness ==
    /\ last.request.op = "assignment_create"
    /\ last.code = 400
    /\ last.request.targets.groups = <<1>>
    /\ last.request.targets.master_categories = <<1>>
    /\ \E a, b \in assignments : a.group # NoId /\ b.master_category # NoId

(* -------------------------------- C26 --------------------------------- *)

\* the five variant fields of a ledger row
StoredVariant(r) == <<r.ai_title, r.ai_short_description, r.ai_content, r.ai_meta_title, r.ai_slug>>

\* the five variant fields of an outbound payload
SentVariant(payload) ==
    <<payload.post_title, payload.post_short_des, payload.post_des, payload.meta_title, payload.slug>>

\* the five fields a post stands for as it is now
CurrentFields(post) ==
    LET meta == IF post.meta_title # "" THEN post.meta_title ELSE post.title
    IN  <<post.title, post.short_description, post.content, meta,
          IF post.slug # "" THEN post.slug ELSE slugify(meta)>>

\* the last HTTP call of the request to portal x
LastHttpTo(x) == CHOOSE j \in HttpTo(x) : \A k \in HttpTo(x) : k <= j

\* C26: after a dispatched attempt the record of (post, portal) stores the
\* variant sent in the last payload to that portal, and that variant comes
\* from the field values the post has at this attempt: it is the post's
\* present fields, or the rewrite made of them, never those of an earlier
\* attempt.
C26_RepublishRereadsPost ==
    Dispatched =>
        \A x \in {p.id : p \in PortalRows} :
            HttpTo(x) # {} =>
                LET h == last.http[LastHttpTo(x)]
                IN  /\ \A r \in RowsFor(ledger, last.request.pk, x) :
                          StoredVariant(r) = SentVariant(h.payload)
                    /\ RowsFor(ledger, last.request.pk, x) # {}
                    /\ SentVariant(h.payload) \in
                          { CurrentFields(posts[last.request.pk]),
                            <<RewrittenObject["title"], RewrittenObject["short_description"],
                              RewrittenObject["description"], RewrittenObject["meta_title"],
                              RewrittenObject["slug"]>> }
                    /\ last.request.targets[h.index].use_default_content =>
                          SentVariant(h.payload) = CurrentFields(posts[last.request.pk])

\* the post was edited after a first attempt had stored its old fields, and
\* the second attempt stored the new ones in the same record
C26_Witness ==
    /\ Dispatched
    /\ calls = 2
    /\ posts[last.request.pk].title = "Late Goal"
    /\ \E old \in prevLedger : \E r \in ledger :
          /\ old.id = r.id
          /\ old.news_post = last.request.pk
          /\ old.ai_title = "Big Match"
          /\ r.ai_title = "Late Goal"
          /\ r.ai_short_description = "late short"

(* -------------------------------- C27 --------------------------------- *)

\* the enabled prompts of portal x, NoId standing for the global ones
EnabledPrompts(x) == {p \in prompts : p.portal = x /\ p.is_active}

HoldsCategory(user, mc) == \E a \in assignments : a.user = user /\ a.master_category = mc

\* the user holds an assignment row naming a group that contains the category
HoldsGroupWith(user, mc) ==
    \E a \in assignments : \E g \in GroupRows :
        a.user = user /\ a.group = g.id /\ mc \in g.master_categories

\* the request was answered 403
Forbidden == last.request.op = "publish" /\ last.code = 403

\* C29: a publish request gets past the authorisation test only for a user
\* with an assignment row naming the category; any other user asking for an
\* existing post under a category, a member of a group holding the category
\* included, is answered 403, and a 403 answer comes with no rewrite call,
\* no HTTP call and an untouched ledger.
C29_GroupAssignmentDoesNotAuthorise ==
    last.request.op = "publish" =>
        LET user == last.request.user
            mc   == last.request.master_category_id
        IN  /\ (last.code = 200 \/ last.message = MsgNoPortals \/ last.http # << >>
                   \/ last.rewrites # << >> \/ ledger # prevLedger)
                  => HoldsCategory(user, mc)
            /\ (mc # NoId /\ last.request.pk \in DOMAIN posts /\ ~HoldsCategory(user, mc))
                  => (Forbidden /\ last.message = MsgNotAssigned /\ ~last.ok)
            /\ Forbidden =>
                  /\ last.http = << >> /\ last.rewrites = << >> /\ last.results = << >>
                  /\ ledger = prevLedger

\* a member of a group that holds the category asked to publish under it and
\* was refused, the ledger written by an earlier request staying as it was
C29_Witness ==
    /\ Forbidden
    /\ HoldsGroupWith(last.request.user, last.request.master_category_id)
    /\ ~HoldsCategory(last.request.user, last.request.master_category_id)
    /\ ledger # {}
    /\ ledger = prevLedger

(* -------------------------------- C30 --------------------------------- *)

\* portal x may be written by the request: a mapping of the category leads to
\* it, it is not excluded, and the user has a matched identity on it
MayWrite(x) ==
    /\ \E i \in DOMAIN mappings :
          mappings[i].master_category = last.request.master_category_id /\ MappingPortal(i) = x
    /\ ~NamedInExcluded(x)
    /\ HasMatchedIdentity(last.request.user, x)

\* the rows of the ledger that the request created or changed
Written == ledger \ prevLedger

\* C30: the rows a publish request created or changed are rows of its post
\* and of a portal it may write, to which it made an HTTP call; every row it
\* found is still there under the same key, unchanged unless it is such a
\* row; posts, mappings, assignments and identities are as they were.
C30_PublishWritesOnlyItsRecords ==
    last.request.op = "publish" =>
        /\ \A r \in Written :
              /\ r.news_post = last.request.pk
              /\ MayWrite(r.portal)
              /\ HttpTo(r.portal) # {}
        /\ \A q \in prevLedger :
              \/ q \in ledger
              \/ \E r \in Written :
                    r.id = q.id /\ r.news_post = q.news_post /\ r.portal = q.portal
        /\ \A j \in DOMAIN last.http : MayWrite(last.http[j].portal)
        /\ posts = InitPosts
        /\ mappings = InitMappings
        /\ assignments = InitAssignments
        /\ identities = InitIdentities

\* the request wrote a row of its post while a row of another post and
\* another portal, written by an earlier request, stayed as it was
C30_Witness ==
    /\ Dispatched
    /\ \E r \in Written : \E q \in prevLedger :
          /\ q \in ledger
          /\ q.news_post # r.news_post
          /\ q.portal # r.portal

====
